---------------------------- MODULE Spec2Model ----------------------------
(***************************************************************************)
(* Model of the SSD1680 monochrome display driver (src/src/ssd1680.rs):    *)
(* the packed 1bpp frame buffer with set_pixel / fill / set_buffer /       *)
(* draw_buffer[_with_transparency], and the refresh scheduler that chooses *)
(* between a full and a partial panel refresh.                             *)
(*                                                                         *)
(* Two specifications share the variables:                                 *)
(*   Spec    the display from construction, under any sequence of refresh  *)
(*           calls, each controller step free to fail;                     *)
(*   SpecFb  one call applied to a display whose frame buffer              *)
(*           and refresh counter are drawn from bounded sets of values the *)
(*           program can hold.                                             *)
(***************************************************************************)
EXTENDS Integers, Sequences, FiniteSets

(***************************************************************************)
(* Bounds of the model.  The panel is WidthBytes*8 pixels wide and Height  *)
(* pixels high; MaxCalls is where the history counter `calls` saturates.   *)
(***************************************************************************)
WidthBytes == 2
Height == 2
MaxCalls == 8

\* config.width, config.height (width a multiple of 8)
width == 8 * WidthBytes
height == Height

\* 176 * 296 in the source: the pixel count of the largest panel, used as a
\* byte count.  Scaled to the model's panel the same way (pixels as bytes).
FRAME_BUFFER_SIZE == width * height

\* `self.refresh_count >= 5`
THRESHOLD == 5
\* `refresh_count: 10` in new()
INITIAL_REFRESH_COUNT == 10

(***************************************************************************)
(* u8 / u16 arithmetic                                                     *)
(***************************************************************************)
Pow2(n) == 2 ^ n
\* All u16 results of the model stay far below 2^16, so the debug build
\* (overflow panics) and the release build (overflow wraps) agree on them.
U16(v) == v % 65536
U8(v) == v % 256

RECURSIVE BitAndN(_, _, _)
BitAndN(a, b, n) ==
    IF n = 0 THEN 0
    ELSE (a % 2) * (b % 2) + 2 * BitAndN(a \div 2, b \div 2, n - 1)
BitAnd(a, b) == BitAndN(a, b, 8)

RECURSIVE BitOrN(_, _, _)
BitOrN(a, b, n) ==
    IF n = 0 THEN 0
    ELSE ((a % 2) + (b % 2) - (a % 2) * (b % 2)) + 2 * BitOrN(a \div 2, b \div 2, n - 1)
BitOr(a, b) == BitOrN(a, b, 8)

RECURSIVE BitXorN(_, _, _)
BitXorN(a, b, n) ==
    IF n = 0 THEN 0
    ELSE (((a % 2) + (b % 2)) % 2) + 2 * BitXorN(a \div 2, b \div 2, n - 1)
BitXor(a, b) == BitXorN(a, b, 8)

BitNot(a) == 255 - a
\* u8 << n and u8 >> n for n < 8
Shl8(a, n) == U8(a * Pow2(n))
Shr8(a, n) == a \div Pow2(n)
\* 0xff_u8.checked_shl(n).unwrap_or(0) / checked_shr(n).unwrap_or(0):
\* None, hence 0, when n is not below the 8 bits of a u8
checked_shl_or0(a, n) == IF n >= 8 THEN 0 ELSE Shl8(a, n)
checked_shr_or0(a, n) == IF n >= 8 THEN 0 ELSE Shr8(a, n)
\* bit k of a byte, k = 0 least significant
Bit(b, k) == (b \div Pow2(k)) % 2

(***************************************************************************)
(* State                                                                   *)
(***************************************************************************)
VARIABLES
    frame_buffer,        \* [0..FRAME_BUFFER_SIZE-1 -> 0..255]
    refresh_count,       \* u8
    alive,               \* FALSE once a call has panicked
    last,                \* the last call: operation, arguments, result
    prev_fb,             \* frame_buffer before the last call
    prev_count,          \* refresh_count before the last call
    driver_log,          \* controller operations the last refresh invoked
    calls,               \* number of refresh calls so far, saturating at MaxCalls
    clean,               \* every refresh so far was refresh(false) and succeeded
    partials_since_full, \* successful partial_refresh since the last successful full_refresh
    full_done            \* some full_refresh has succeeded

vars == <<frame_buffer, refresh_count, alive, last, prev_fb, prev_count,
          driver_log, calls, clean, partials_since_full, full_done>>

refreshHist == <<driver_log, calls, clean, partials_since_full, full_done>>

NoArgs ==
    [x |-> 0, y |-> 0, w |-> 0, h |-> 0, color |-> FALSE, buf |-> <<>>,
     mode |-> "None", force |-> FALSE, failing |-> {}]

\* reads: the <<row, index>> source bytes a blit read; repeat: the call has the
\* operation and the arguments of the call before it
NoCall ==
    [op |-> "new", args |-> NoArgs, result |-> "Ok", err |-> "", reads |-> {},
     repeat |-> FALSE]

Call(op, args, result, err, reads) ==
    [op |-> op, args |-> args, result |-> result, err |-> err, reads |-> reads,
     repeat |-> (op = last.op /\ args = last.args)]

\* Ssd1680Display::new
Init ==
    /\ frame_buffer = [i \in 0 .. FRAME_BUFFER_SIZE - 1 |-> 0]
    /\ refresh_count = INITIAL_REFRESH_COUNT
    /\ alive = TRUE
    /\ last = NoCall
    /\ prev_fb = frame_buffer
    /\ prev_count = refresh_count
    /\ driver_log = <<>>
    /\ calls = 0
    /\ clean = TRUE
    /\ partials_since_full = 0
    /\ full_done = FALSE

(***************************************************************************)
(* Refresh scheduler                                                       *)
(***************************************************************************)
DriverOps == {"hw_init", "write_bw_bytes", "full_refresh", "partial_refresh",
              "enter_deep_sleep"}

\* `if self.refresh_count >= 5 || force_full`
ShouldFullRefresh_NoForce(count, force_full) == count >= THRESHOLD
ShouldFullRefresh_OffByOne(count, force_full) == count > THRESHOLD \/ force_full
ShouldFullRefresh(count, force_full) == count >= THRESHOLD \/ force_full

\* The `?` after a controller call: refresh returns that call's error at once.
\* The final enter_deep_sleep() is the function's value, so its error is
\* returned too.
Propagates_NotWrite(op, failing) == op \in failing /\ op # "write_bw_bytes"
Propagates(op, failing) == op \in failing

\* &self.frame_buffer[0..(self.height * self.width / 8) as usize]
WriteSpan == U16(U16(height * width) \div 8)

\* The body of refresh as a function of the counter, the argument and the set
\* of controller operations that fail when invoked: the operations invoked in
\* order, the value returned and the counter left behind.
RefreshOutcome(count, force_full, failing) ==
    LET s1 == <<"hw_init">>
        s2 == Append(s1, "write_bw_bytes")
        full == ShouldFullRefresh(count, force_full)
        kind == IF full THEN "full_refresh" ELSE "partial_refresh"
        s3 == Append(s2, kind)
        count3 == IF full THEN 0 ELSE U8(count + 1)
        s4 == Append(s3, "enter_deep_sleep")
        out(log, result, err, c) ==
            [log |-> log, result |-> result, err |-> err, count |-> c]
    IN  IF Propagates("hw_init", failing)
        THEN out(s1, "Err", "hw_init", count)
        ELSE IF WriteSpan > FRAME_BUFFER_SIZE
        THEN out(s1, "PanicIndex", "", count)
        ELSE IF Propagates("write_bw_bytes", failing)
        THEN out(s2, "Err", "write_bw_bytes", count)
        ELSE IF Propagates(kind, failing)
        THEN out(s3, "Err", kind, count)
        ELSE IF "enter_deep_sleep" \in failing
        THEN out(s4, "Err", "enter_deep_sleep", count3)
        ELSE out(s4, "Ok", "", count3)

Min(a, b) == IF a <= b THEN a ELSE b

Succeeded(o, op) ==
    \E k \in 1 .. Len(o.log) : o.log[k] = op /\ (k < Len(o.log) \/ o.err # op)

refresh(force_full, failing) ==
    LET o == RefreshOutcome(refresh_count, force_full, failing)
    IN  /\ alive
        /\ refresh_count' = o.count
        /\ alive' = (o.result \in {"Ok", "Err"})
        /\ last' = Call("refresh",
                        [NoArgs EXCEPT !.force = force_full, !.failing = failing],
                        o.result, o.err, {})
        /\ prev_count' = refresh_count
        /\ driver_log' = o.log
        /\ calls' = Min(calls + 1, MaxCalls)
        /\ clean' = (clean /\ ~force_full /\ o.result = "Ok")
        /\ partials_since_full' =
              IF Succeeded(o, "full_refresh") THEN 0
              ELSE IF Succeeded(o, "partial_refresh") THEN partials_since_full + 1
              ELSE partials_since_full
        /\ full_done' = (full_done \/ Succeeded(o, "full_refresh"))
        /\ UNCHANGED frame_buffer
        /\ prev_fb' = frame_buffer

Next ==
    \E force_full \in BOOLEAN, failing \in SUBSET DriverOps :
        refresh(force_full, failing)

Spec == Init /\ [][Next]_vars


(***************************************************************************)
(* Address translation and the frame buffer store                          *)
(***************************************************************************)
\* fn get_address(x, y, width): (x / 8 + y * width / 8, x % 8)
get_address(x, y, wd) ==
    [buffer_position |-> U16(U16(x \div 8) + U16(U16(y * wd) \div 8)),
     byte_offset |-> x % 8]

\* (byte & !(1 << offset)) | ((color as u8) << offset)
SetBit_NoClear(byte, offset, color) ==
    BitOr(byte, Shl8(IF color THEN 1 ELSE 0, offset))
SetBit(byte, offset, color) ==
    BitOr(BitAnd(byte, BitNot(Shl8(1, offset))), Shl8(IF color THEN 1 ELSE 0, offset))

Outcome(fb, result, reads) == [fb |-> fb, result |-> result, reads |-> reads]

\* body of set_pixel: an index outside the array panics
SetPixelOutcome(fb, x, y, color) ==
    LET address == get_address(x, y, width)
        pos == address.buffer_position
    IN  IF pos >= FRAME_BUFFER_SIZE
        THEN Outcome(fb, "PanicIndex", {})
        ELSE Outcome([fb EXCEPT ![pos] = SetBit(fb[pos], address.byte_offset, color)],
                     "Ok", {})

\* body of fill: [(color as u8) * 255; FRAME_BUFFER_SIZE]
FillOutcome(fb, color) ==
    Outcome([i \in 0 .. FRAME_BUFFER_SIZE - 1 |-> (IF color THEN 1 ELSE 0) * 255],
            "Ok", {})

\* body of set_buffer: copy_from_slice panics unless the two lengths are equal
SetBufferOutcome(fb, buffer) ==
    IF Len(buffer) # FRAME_BUFFER_SIZE
    THEN Outcome(fb, "PanicLen", {})
    ELSE Outcome([i \in 0 .. FRAME_BUFFER_SIZE - 1 |-> buffer[i + 1]], "Ok", {})

(***************************************************************************)
(* Blit engine                                                             *)
(***************************************************************************)
\* framebuffer_byte &= mask; framebuffer_byte |= bits
Compose_Additive(framebuffer_byte, mask, bits) == BitXor(framebuffer_byte, bits)
Compose(framebuffer_byte, mask, bits) == BitOr(BitAnd(framebuffer_byte, mask), bits)

\* One iteration (j, i) of the loops of draw_buffer_with_transparency, from
\* the outcome st so far.  a holds the arguments; a.buf is the source slice
\* (buf[k + 1] is the source's byte k).
BlitStep(st, a, j, i) ==
    LET address_frambuffer_byte == get_address(U16(a.x + U16(i * 8)), U16(a.y + j), width)
        address_buffer_byte == get_address(U16(i * 8), j, a.w)
        dpos == address_frambuffer_byte.buffer_position
        spos == address_buffer_byte.buffer_position
        offset == address_frambuffer_byte.byte_offset
        takePrev == i # 0 /\ offset # 0
        takeCur == i < a.w \div 8
        reads1 == IF takePrev THEN st.reads \cup {<<j, spos - 1>>} ELSE st.reads
        reads2 == IF takeCur THEN reads1 \cup {<<j, spos>>} ELSE reads1
        inBuf(k) == k >= 0 /\ k < Len(a.buf)
        byte0 == st.fb[dpos]
        byte1 == IF takePrev
                 THEN Compose(byte0, checked_shr_or0(255, offset),
                              Shl8(a.buf[spos], 8 - offset))
                 ELSE byte0
        byte2 == IF takeCur
                 THEN Compose(byte1, checked_shl_or0(255, 8 - offset),
                              Shr8(a.buf[spos + 1], offset))
                 ELSE byte1
    IN  IF dpos >= FRAME_BUFFER_SIZE
        THEN Outcome(st.fb, "PanicIndex", st.reads)
        ELSE IF takePrev /\ ~inBuf(spos - 1)
        THEN Outcome(st.fb, "PanicIndex", reads1)
        ELSE IF takePrev /\ a.mode # "None"
        THEN Outcome(st.fb, "PanicUnimplemented", reads1)
        ELSE IF takeCur /\ ~inBuf(spos)
        THEN Outcome(st.fb, "PanicIndex", reads2)
        ELSE IF takeCur /\ a.mode # "None"
        THEN Outcome(st.fb, "PanicUnimplemented", reads2)
        ELSE Outcome([st.fb EXCEPT ![dpos] = byte2], "Ok", reads2)

\* for j in 0..h { for i in 0..(w / 8) + 1 { ... } }, iteration k = j * n + i
RECURSIVE BlitLoop(_, _, _)
BlitLoop(st, a, k) ==
    LET n == U16(a.w \div 8) + 1
    IN  IF k >= a.h * n \/ st.result # "Ok"
        THEN st
        ELSE BlitLoop(BlitStep(st, a, k \div n, k % n), a, k + 1)

\* body of draw_buffer_with_transparency
BlitOutcome(fb, a) == BlitLoop(Outcome(fb, "Ok", {}), a, 0)


(***************************************************************************)
(* The frame buffer calls as actions                                       *)
(***************************************************************************)
FbCall(op, args, o) ==
    /\ alive
    /\ frame_buffer' = o.fb
    /\ alive' = (o.result = "Ok")
    /\ last' = Call(op, args, o.result, "", o.reads)
    /\ prev_fb' = frame_buffer
    /\ prev_count' = refresh_count
    /\ UNCHANGED <<refresh_count, refreshHist>>

set_pixel(x, y, color) ==
    FbCall("set_pixel", [NoArgs EXCEPT !.x = x, !.y = y, !.color = color],
           SetPixelOutcome(frame_buffer, x, y, color))

fill(color) ==
    FbCall("fill", [NoArgs EXCEPT !.color = color], FillOutcome(frame_buffer, color))

set_buffer(buffer) ==
    FbCall("set_buffer", [NoArgs EXCEPT !.buf = buffer],
           SetBufferOutcome(frame_buffer, buffer))

BlitArgs(buffer, x, y, w, h, transparency) ==
    [NoArgs EXCEPT !.buf = buffer, !.x = x, !.y = y, !.w = w, !.h = h,
                   !.mode = transparency]

draw_buffer_with_transparency(buffer, x, y, w, h, transparency) ==
    FbCall("draw_buffer_with_transparency", BlitArgs(buffer, x, y, w, h, transparency),
           BlitOutcome(frame_buffer, BlitArgs(buffer, x, y, w, h, transparency)))

\* self.draw_buffer_with_transparency(buffer, x, y, w, h, TransparencySetting::None)
draw_buffer(buffer, x, y, w, h) ==
    FbCall("draw_buffer", BlitArgs(buffer, x, y, w, h, "None"),
           BlitOutcome(frame_buffer, BlitArgs(buffer, x, y, w, h, "None")))

(***************************************************************************)
(* Inputs of SpecFb                                                        *)
(***************************************************************************)
TransparencySetting == {"None", "BlackTransparent", "WhiteTransparent"}

\* Frame buffer contents: all black (as constructed), all white (after
\* fill(true)), and two complementary mixed contents (after set_buffer or a
\* series of set_pixel), in which every bit position takes both values.
MixedByte(seed, step, i) == U8(seed + step * i)
FbByte(p, i) ==
    CASE p = "black" -> 0
      [] p = "white" -> 255
      [] p = "mixed" -> MixedByte(165, 37, i)
      [] p = "inverse" -> 255 - MixedByte(165, 37, i)
FbContents ==
    {[i \in 0 .. FRAME_BUFFER_SIZE - 1 |-> FbByte(p, i)] :
        p \in {"black", "white", "mixed", "inverse"}}

\* Source buffers of n bytes
SrcByte(q, k) == IF q = "white" THEN 255 ELSE MixedByte(90, 53, k)
Source(q, n) == [k \in 1 .. n |-> SrcByte(q, k - 1)]

\* bytes of a w x h source image: h rows of ceil(w / 8) bytes
Stride(w) == (w + 7) \div 8
SourceLen(w, h) == h * Stride(w)

\* the sources tried for a w x h blit: two of the declared size, one a byte short
Sources(w, h) ==
    {Source("mixed", SourceLen(w, h)), Source("white", SourceLen(w, h))}
        \cup (IF SourceLen(w, h) > 0
              THEN {Source("mixed", SourceLen(w, h) - 1)} ELSE {})

\* rectangles inside the panel; widths are the multiples of 4, so both whole
\* and partial trailing bytes occur
Rects ==
    {r \in [x : 0 .. width - 1, y : 0 .. height - 1, w : 0 .. width, h : 0 .. height] :
        r.w % 4 = 0 /\ r.x + r.w <= width /\ r.y + r.h <= height}

Buffers ==
    {Source(q, n) : q \in {"mixed", "white"},
                    n \in {FRAME_BUFFER_SIZE - 1, FRAME_BUFFER_SIZE, FRAME_BUFFER_SIZE + 1}}

\* the counter as constructed, after a full refresh, and after the last
\* partial refresh before the next full one
RefreshCounts == {INITIAL_REFRESH_COUNT, 0, THRESHOLD}

\* A display after new(), c + 1 successful refresh(false) calls when the
\* counter c is not the constructor's, and calls that left the frame buffer
\* with one of FbContents.
InitFb ==
    /\ frame_buffer \in FbContents
    /\ refresh_count \in RefreshCounts
    /\ alive = TRUE
    /\ last = NoCall
    /\ prev_fb = frame_buffer
    /\ prev_count = refresh_count
    /\ full_done = (refresh_count # INITIAL_REFRESH_COUNT)
    /\ partials_since_full = (IF full_done THEN refresh_count ELSE 0)
    /\ calls = (IF full_done THEN Min(refresh_count + 1, MaxCalls) ELSE 0)
    /\ clean = TRUE
    /\ driver_log =
          (IF ~full_done THEN <<>>
           ELSE <<"hw_init", "write_bw_bytes",
                  IF refresh_count = 0 THEN "full_refresh" ELSE "partial_refresh",
                  "enter_deep_sleep">>)

\* no call has been made on the display of InitFb yet
FirstCall == last.op = "new"

NextFb ==
    \/ \E x \in 0 .. width - 1, y \in 0 .. height - 1, color \in BOOLEAN :
           FirstCall /\ set_pixel(x, y, color)
    \/ \E color \in BOOLEAN : FirstCall /\ fill(color)
    \/ \E buffer \in Buffers : FirstCall /\ set_buffer(buffer)
    \/ \E r \in Rects : \E buffer \in Sources(r.w, r.h) :
           FirstCall /\ draw_buffer(buffer, r.x, r.y, r.w, r.h)
    \/ \E r \in Rects : \E buffer \in Sources(r.w, r.h) :
       \E transparency \in TransparencySetting :
           FirstCall
           /\ draw_buffer_with_transparency(buffer, r.x, r.y, r.w, r.h, transparency)
    \/ \E force_full \in BOOLEAN, failing \in SUBSET DriverOps :
           FirstCall /\ refresh(force_full, failing)
    \* the caller issues the draw_buffer call it has just made once more
    \/ /\ last.op = "draw_buffer" /\ ~last.repeat
       /\ draw_buffer(last.args.buf, last.args.x, last.args.y, last.args.w, last.args.h)

SpecFb == InitFb /\ [][NextFb]_vars


(***************************************************************************)
(* Claims about the refresh scheduler (checked under Spec)                 *)
(***************************************************************************)
LogSet == {driver_log[k] : k \in 1 .. Len(driver_log)}
DidFull == "full_refresh" \in LogSet
DidPartial == "partial_refresh" \in LogSet

\* C1 (as stated): from a fresh display with every controller step
\* succeeding, the 1st refresh(false) is full and leaves the counter at 0,
\* the next 4 are partial leaving 1, 2, 3, 4, and the 5th call after the
\* first is full again and leaves 0.
C1_CadenceAsStated ==
    clean =>
        /\ calls = 1 => (DidFull /\ ~DidPartial /\ refresh_count = 0)
        /\ calls \in 2 .. 5 => (DidPartial /\ ~DidFull /\ refresh_count = calls - 1)
        /\ calls = 6 => (DidFull /\ ~DidPartial /\ refresh_count = 0)

\* C1 (amended): from a fresh display with every controller step succeeding,
\* the 1st refresh(false) is full and leaves the counter at 0, the next 5
\* are partial leaving 1, 2, 3, 4, 5, and the 6th call after the first is
\* full again and leaves 0.
C1_Cadence ==
    clean =>
        /\ calls = 1 => (DidFull /\ ~DidPartial /\ refresh_count = 0)
        /\ calls \in 2 .. 6 => (DidPartial /\ ~DidFull /\ refresh_count = calls - 1)
        /\ calls = 7 => (DidFull /\ ~DidPartial /\ refresh_count = 0)

C1_Witness == clean /\ calls = 7 /\ DidFull /\ prev_count = 5

\* C2: whatever the earlier calls did, a refresh(true) whose controller steps
\* all succeed invokes full_refresh, never partial_refresh, and leaves
\* refresh_count = 0.
C2_ForceFull ==
    (last.op = "refresh" /\ last.args.force /\ last.result = "Ok") =>
        (DidFull /\ ~DidPartial /\ refresh_count = 0)

C2_Witness ==
    /\ last.op = "refresh" /\ last.args.force /\ last.result = "Ok"
    /\ prev_count \in 1 .. 4
    /\ ~clean
    /\ refresh_count = 0

\* C3: never more than 5 successful partial refreshes without a successful
\* full refresh between them, and refresh_count never exceeds 5 once the
\* first full refresh has succeeded, under any arguments and any failures.
C3_GhostingBound ==
    /\ partials_since_full <= 5
    /\ full_done => refresh_count <= 5

C3_Witness ==
    /\ partials_since_full = 5
    /\ refresh_count = 5
    /\ full_done
    /\ last.op = "refresh" /\ last.result = "Err"

C4_Sequence(K) == <<"hw_init", "write_bw_bytes", K, "enter_deep_sleep">>

\* C4: the controller operations of a refresh are, in order, a prefix of
\* [hw_init, write_bw_bytes, full_refresh or partial_refresh,
\* enter_deep_sleep]; the prefix ends at the first operation that fails, whose
\* error refresh returns, nothing being invoked after it; with no failure
\* all four are invoked, enter_deep_sleep last.
C4_CallSequence ==
    last.op = "refresh" =>
        LET n == Len(driver_log)
            f == last.args.failing
        IN  /\ n \in 1 .. 4
            /\ \E K \in {"full_refresh", "partial_refresh"} :
                   \A k \in 1 .. n : driver_log[k] = C4_Sequence(K)[k]
            /\ \A k \in 1 .. n - 1 : driver_log[k] \notin f
            /\ IF driver_log[n] \in f
               THEN last.result = "Err" /\ last.err = driver_log[n]
               ELSE n = 4 /\ last.result = "Ok"

C4_Witness ==
    /\ last.op = "refresh"
    /\ last.result = "Err" /\ last.err = "write_bw_bytes"
    /\ driver_log = <<"hw_init", "write_bw_bytes">>
    /\ last.args.failing = DriverOps \ {"hw_init"}


(***************************************************************************)
(* Claims about the frame buffer and the blit (checked under SpecFb)       *)
(***************************************************************************)
\* The pixel (px, py) of the frame buffer and the pixel (sx, sy) of a source
\* of row width w, read the way set_pixel writes a pixel: bit px mod 8 (0 least
\* significant) of byte px/8 + py*width/8.
FbPixel(fb, px, py) ==
    Bit(fb[(px \div 8) + ((py * width) \div 8)], px % 8)
SrcPixel(buf, sx, sy, w) ==
    Bit(buf[(sx \div 8) + ((sy * w) \div 8) + 1], sx % 8)

InRect(a, px, py) ==
    /\ px >= a.x /\ px < a.x + a.w
    /\ py >= a.y /\ py < a.y + a.h

\* C5: after draw_buffer(source, x, y, w, h) with w a multiple of 8 and the
\* rectangle inside the panel, every frame buffer pixel (x+sx, y+sy) equals
\* the source pixel (sx, sy), and every pixel outside the rectangle keeps its
\* value, also when x is not a multiple of 8.
C5_OpaqueBlitPlacement ==
    (/\ last.op = "draw_buffer" /\ last.result = "Ok"
     /\ last.args.w % 8 = 0
     /\ Len(last.args.buf) = SourceLen(last.args.w, last.args.h)) =>
        LET a == last.args
        IN  /\ \A sx \in 0 .. a.w - 1, sy \in 0 .. a.h - 1 :
                   FbPixel(frame_buffer, a.x + sx, a.y + sy)
                       = SrcPixel(a.buf, sx, sy, a.w)
            /\ \A px \in 0 .. width - 1, py \in 0 .. height - 1 :
                   ~InRect(a, px, py) =>
                       FbPixel(frame_buffer, px, py) = FbPixel(prev_fb, px, py)

\* C6: draw_buffer_with_transparency with BlackTransparent or
\* WhiteTransparent never returns success, for all x, y, w, h, and leaves
\* the frame buffer unchanged.
C6_TransparencyUnsupported ==
    (/\ last.op = "draw_buffer_with_transparency"
     /\ last.args.mode \in {"BlackTransparent", "WhiteTransparent"}) =>
        /\ last.result # "Ok"
        /\ frame_buffer = prev_fb

\* C7: set_buffer(B) replaces the whole frame buffer with B when len(B) is the
\* capacity, and otherwise returns a size-mismatch error to the caller and
\* leaves the frame buffer unchanged.
C7_SetBuffer ==
    last.op = "set_buffer" =>
        IF Len(last.args.buf) = FRAME_BUFFER_SIZE
        THEN /\ last.result = "Ok"
             /\ \A i \in 0 .. FRAME_BUFFER_SIZE - 1 : frame_buffer[i] = last.args.buf[i + 1]
        ELSE /\ last.result = "Err"
             /\ frame_buffer = prev_fb

\* C8: a draw_buffer call repeated with the same arguments right after the
\* first leaves the frame buffer exactly as the first call left it, for any
\* x and w (multiples of 8 or not).
C8_BlitIdempotent ==
    (last.op = "draw_buffer" /\ last.repeat) =>
        /\ last.result = "Ok"
        /\ frame_buffer = prev_fb

C8_Witness ==
    /\ last.op = "draw_buffer" /\ last.repeat /\ last.result = "Ok"
    /\ last.args.x % 8 # 0 /\ last.args.w % 8 # 0
    /\ last.args.w > 8 /\ last.args.h = 2
    /\ frame_buffer \notin FbContents

\* C9: for in-range (x, y), set_pixel(x, y, c) succeeds, the bit x mod 8 of
\* byte x/8 + y*width/8 equals c afterwards, every other bit of the frame
\* buffer is unchanged, and so is the refresh counter.
C9_SetPixel ==
    last.op = "set_pixel" =>
        LET pos == (last.args.x \div 8) + ((last.args.y * width) \div 8)
            k == last.args.x % 8
        IN  /\ last.result = "Ok"
            /\ Bit(frame_buffer[pos], k) = (IF last.args.color THEN 1 ELSE 0)
            /\ \A i \in 0 .. FRAME_BUFFER_SIZE - 1, b \in 0 .. 7 :
                   (i # pos \/ b # k) => Bit(frame_buffer[i], b) = Bit(prev_fb[i], b)
            /\ refresh_count = prev_count

C9_Witness ==
    /\ last.op = "set_pixel" /\ last.result = "Ok"
    /\ ~last.args.color
    /\ last.args.x = 11 /\ last.args.y = 1
    /\ prev_fb[WidthBytes + 1] = 255
    /\ frame_buffer[WidthBytes + 1] = 247
    /\ refresh_count = 5

\* C10: for a source width w not divisible by 8, every source index the blit
\* of row j reads lies in [j*ceil(w/8), (j+1)*ceil(w/8)).
C10_ReadsWithinRow ==
    (last.op = "draw_buffer" /\ last.args.w % 8 # 0) =>
        \A rd \in last.reads :
            /\ rd[2] >= rd[1] * Stride(last.args.w)
            /\ rd[2] < (rd[1] + 1) * Stride(last.args.w)

=============================================================================
